---------------------------- MODULE Spec2Model ----------------------------
(***************************************************************************)
(* gee-orm, day 1: the leveled logger (package log), the Engine (package   *)
(* geeorm) and the raw-SQL Session (package session).                      *)
(*                                                                         *)
(* Four specifications share the variables:                                *)
(*   Spec     the engine and its sessions, one call at a time (a Session   *)
(*            is a single-writer builder), each call one action;           *)
(*   SpecSolo the same calls of a program that makes a single session;     *)
(*   SpecMain the demonstration program's statements on one session,       *)
(*            against the database file it documents;                      *)
(*   SpecLog  the logger under concurrent callers: SetLevel step by step   *)
(*            under mu, Info/Error emissions interleaved with it.          *)
(***************************************************************************)
EXTENDS Integers, Sequences, FiniteSets, TLC

\* ------------------------------------------------------------------ bounds

\* Raw calls accumulated and not yet executed or cleared, over all sessions.
MaxPending == 2

\* Exec calls made by the demonstration program in one behaviour.
MaxScript == 4

\* ------------------------------------------------------------ input domains

\* The character that quotes the column name in the statement of the
\* demonstration program: the first character of the two-character string.
Backquote == SubSeq("`'", 1, 1)

\* The two halves of that statement, for a caller that gives it to Raw in
\* two calls.
FragA == ((("INSERT INTO User(" \o Backquote) \o "Name") \o Backquote) \o ")"
FragB == "values (?), (?)"
\* The statement of the demonstration program, written as one fragment.
FragAB == (FragA \o " ") \o FragB
Fragments == {FragA, FragB, FragAB}

\* A parameter value holding SQL metacharacters.
Meta == "x'); DROP TABLE User;--"
ParamLists == {<<>>, <<"Tom", "Sam">>, <<Meta, "Sam">>}

SessionIds == {"s1", "s2"}

EngineIds == {"e1"}
TheEngine == "e1"

Nil == "nil"
TheDB == "db"

\* Errors the driver can answer a statement with while the handle is open,
\* and the one database/sql answers with once the handle is closed.
DriverErr == "table User already exists"
ClosedErr == "sql: database is closed"

VARIABLES
    engine,     \* the engines NewEngine returned: engine id -> Engine struct
    dbState,    \* handle -> state of the *sql.DB: "unopened", "open", "closed"
    sessions,   \* the sessions created: session id -> Session struct
    pending,    \* history: the Raw calls made on a session since creation,
                \* Clear or the last terminal call, in call order
    last,       \* history: the last completed call, its events and returns
    table,      \* the database file: whether table User exists, and its rows
    script,     \* history: the Exec calls of the demonstration program, with
                \* what reached the driver and what it answered
    out,        \* logger -> output target ("Stdout" or "Discard")
    mu,         \* log.mu: Nil, or the thread holding it
    pc,         \* thread -> position inside SetLevel
    arg,        \* thread -> level argument of its SetLevel call
    idx,        \* thread -> index into loggers of the reset loop
    levels,     \* history: arguments of the completed SetLevel calls
    emit        \* history: the last Info/Error emission

sessVars == <<engine, dbState, sessions, pending, last, table, script>>
mainVars == <<table, script>>
logVars == <<out, mu, pc, arg, idx, levels, emit>>
vars == <<engine, dbState, sessions, pending, last, table, script,
          out, mu, pc, arg, idx, levels, emit>>

\* ------------------------------------------------------------ package session

\* session.New: a Session on the given handle, zero sql and sqlVars.
New(db) == [db |-> db, sql |-> "", sqlVars |-> <<>>]

\* Mutant of Clear: s.sql.Reset() is forgotten.
ClearVarsOnly(s) == [s EXCEPT !.sqlVars = <<>>]

\* Mutant of Clear: s.sqlVars = nil is forgotten.
ClearBufferOnly(s) == [s EXCEPT !.sql = ""]

\* Session.Clear: reset the builder and drop the parameters.
\* Mutant of Clear: the whole struct is reset, the handle reference too.
ClearDropsHandle(s) == [db |-> Nil, sql |-> "", sqlVars |-> <<>>]

Clear(s) == [s EXCEPT !.sql = "", !.sqlVars = <<>>]

\* Session.DB.
DB(s) == s.db

\* The values written out one after the other, each followed by a space.
RECURSIVE Inline(_)
Inline(values) ==
    IF values = <<>> THEN "" ELSE (Head(values) \o " ") \o Inline(Tail(values))

\* Mutant of Raw: the values are written into the text as well.
RawInline(s, sql, values) ==
    [s EXCEPT !.sql = ((@ \o sql) \o " ") \o Inline(values),
              !.sqlVars = @ \o values]

\* Mutant of Raw: the separating space is forgotten.
RawNoSpace(s, sql, values) ==
    [s EXCEPT !.sql = @ \o sql, !.sqlVars = @ \o values]

\* Mutant of Raw: the values replace the parameters instead of following them.
RawOverwriteVars(s, sql, values) ==
    [s EXCEPT !.sql = (@ \o sql) \o " ", !.sqlVars = values]

\* Session.Raw: fragment, then one space; values appended.
Raw(s, sql, values) ==
    [s EXCEPT !.sql = (@ \o sql) \o " ", !.sqlVars = @ \o values]


\* One observable step of a call: a log call on a channel ("info", "error"),
\* a call into database/sql ("Open", "Ping", "Close", "Exec", "QueryRow",
\* "Query") or the deferred Clear ("Clear").
Ev(kind, text, vs) == [kind |-> kind, text |-> text, vars |-> vs]

\* What DB.Exec can answer: a result, or an error and no result.
ExecAnswers(st) ==
    IF st = "open"
    THEN {[val |-> "Result", err |-> Nil], [val |-> Nil, err |-> DriverErr]}
    ELSE {[val |-> Nil, err |-> ClosedErr]}

\* What DB.Query can answer: a cursor over zero or more rows, or an error.
QueryAnswers(st) ==
    IF st = "open"
    THEN {[val |-> "Rows", err |-> Nil], [val |-> Nil, err |-> DriverErr]}
    ELSE {[val |-> Nil, err |-> ClosedErr]}

\* What DB.QueryRow can put inside the *sql.Row it always returns: one row,
\* no row, or a driver error; each is seen by the caller only at Scan.
QueryRowAnswers(st) ==
    IF st = "open"
    THEN {[val |-> "row", err |-> Nil], [val |-> "norows", err |-> Nil],
          [val |-> Nil, err |-> DriverErr]}
    ELSE {[val |-> Nil, err |-> ClosedErr]}

\* Mutant of Exec: Clear is not deferred and is skipped on the error path.
ExecClearOnSuccess(s, ans) ==
    [events |-> <<Ev("info", s.sql, s.sqlVars), Ev("Exec", s.sql, s.sqlVars)>>
                \o (IF ans.err # Nil THEN <<Ev("error", ans.err, <<>>)>>
                                     ELSE <<Ev("Clear", "", <<>>)>>),
     ret    |-> <<ans.val, ans.err>>,
     post   |-> IF ans.err # Nil THEN s ELSE Clear(s)]

\* Mutant of Exec: the statement is logged after the driver call.
ExecLogsAfterDriver(s, ans) ==
    [events |-> <<Ev("Exec", s.sql, s.sqlVars), Ev("info", s.sql, s.sqlVars)>>
                \o (IF ans.err # Nil THEN <<Ev("error", ans.err, <<>>)>>
                                     ELSE <<>>)
                \o <<Ev("Clear", "", <<>>)>>,
     ret    |-> <<ans.val, ans.err>>,
     post   |-> Clear(s)]

\* Mutant of Exec: a failed statement is sent to the driver a second time.
ExecRetries(s, ans) ==
    [events |-> <<Ev("info", s.sql, s.sqlVars), Ev("Exec", s.sql, s.sqlVars)>>
                \o (IF ans.err # Nil
                    THEN <<Ev("Exec", s.sql, s.sqlVars),
                           Ev("error", ans.err, <<>>)>>
                    ELSE <<>>)
                \o <<Ev("Clear", "", <<>>)>>,
     ret    |-> <<ans.val, ans.err>>,
     post   |-> Clear(s)]

\* Session.Exec with the driver answering ans: the events in program order,
\* the returned (result, err) and the session as the deferred Clear leaves it.
Exec(s, ans) ==
    [events |-> <<Ev("info", s.sql, s.sqlVars), Ev("Exec", s.sql, s.sqlVars)>>
                \o (IF ans.err # Nil THEN <<Ev("error", ans.err, <<>>)>>
                                     ELSE <<>>)
                \o <<Ev("Clear", "", <<>>)>>,
     ret    |-> <<ans.val, ans.err>>,
     post   |-> Clear(s)]

\* Mutant of QueryRow: a cursor without a row is logged as an error.
QueryRowReportsNoRows(s, ans) ==
    [events |-> <<Ev("info", s.sql, s.sqlVars),
                  Ev("QueryRow", s.sql, s.sqlVars)>>
                \o (IF ans.val # "row"
                    THEN <<Ev("error", "sql: no rows in result set", <<>>)>>
                    ELSE <<>>)
                \o <<Ev("Clear", "", <<>>)>>,
     ret    |-> <<"Row">>,
     post   |-> Clear(s)]

\* Session.QueryRow: no error is looked at; the cursor alone is returned.
QueryRow(s, ans) ==
    [events |-> <<Ev("info", s.sql, s.sqlVars),
                  Ev("QueryRow", s.sql, s.sqlVars),
                  Ev("Clear", "", <<>>)>>,
     ret    |-> <<"Row">>,
     post   |-> Clear(s)]

\* Mutant of QueryRows: the state is kept when the driver fails.
QueryRowsKeepOnError(s, ans) ==
    [events |-> <<Ev("info", s.sql, s.sqlVars), Ev("Query", s.sql, s.sqlVars)>>
                \o (IF ans.err # Nil THEN <<Ev("error", ans.err, <<>>)>>
                                     ELSE <<Ev("Clear", "", <<>>)>>),
     ret    |-> <<ans.val, ans.err>>,
     post   |-> IF ans.err # Nil THEN s ELSE Clear(s)]

\* Session.QueryRows.
QueryRows(s, ans) ==
    [events |-> <<Ev("info", s.sql, s.sqlVars), Ev("Query", s.sql, s.sqlVars)>>
                \o (IF ans.err # Nil THEN <<Ev("error", ans.err, <<>>)>>
                                     ELSE <<>>)
                \o <<Ev("Clear", "", <<>>)>>,
     ret    |-> <<ans.val, ans.err>>,
     post   |-> Clear(s)]

\* ------------------------------------------------------------- package geeorm

OpenErr == "sql: unknown driver"
PingErr == "unable to open database file"
CloseErr == "close failed"

\* NewEngine with sql.Open answering openErr and db.Ping answering pingErr.
\* st is the state of the handle the returned engine holds; the handle of a
\* failed Ping is dropped with the engine and is not followed further.
\* Mutant of NewEngine: a failed Ping still hands out the engine.
NewEngineKeepsUnreachable(openErr, pingErr) ==
    IF openErr # Nil
    THEN [events |-> <<Ev("Open", "", <<>>), Ev("error", openErr, <<>>)>>,
          ret |-> <<Nil, openErr>>, st |-> "unopened"]
    ELSE IF pingErr # Nil
    THEN [events |-> <<Ev("Open", "", <<>>), Ev("Ping", "", <<>>),
                       Ev("error", pingErr, <<>>)>>,
          ret |-> <<TheEngine, pingErr>>, st |-> "unopened"]
    ELSE [events |-> <<Ev("Open", "", <<>>), Ev("Ping", "", <<>>),
                       Ev("info", "Connect database success", <<>>)>>,
          ret |-> <<TheEngine, Nil>>, st |-> "open"]

NewEngine(openErr, pingErr) ==
    IF openErr # Nil
    THEN [events |-> <<Ev("Open", "", <<>>), Ev("error", openErr, <<>>)>>,
          ret |-> <<Nil, openErr>>, st |-> "unopened"]
    ELSE IF pingErr # Nil
    THEN [events |-> <<Ev("Open", "", <<>>), Ev("Ping", "", <<>>),
                       Ev("error", pingErr, <<>>)>>,
          ret |-> <<Nil, pingErr>>, st |-> "unopened"]
    ELSE [events |-> <<Ev("Open", "", <<>>), Ev("Ping", "", <<>>),
                       Ev("info", "Connect database success", <<>>)>>,
          ret |-> <<TheEngine, Nil>>, st |-> "open"]

\* Engine.Close with db.Close answering closeErr.
Close(closeErr) ==
    [events |-> <<Ev("Close", "", <<>>)>>
                \o (IF closeErr # Nil
                    THEN <<Ev("error", "Failed to close database", <<>>)>>
                    ELSE <<>>)
                \o <<Ev("info", "Close database success", <<>>)>>,
     ret    |-> <<>>,
     st     |-> "closed"]

\* Mutant of NewSession: the session comes with text already in its buffer.
NewSessionStale(e) == [db |-> e.db, sql |-> "SELECT 1 ", sqlVars |-> <<>>]

\* Engine.NewSession.
NewSession(e) == New(e.db)


\* ---------------------------------------------------------------- package log

InfoLevel == 0
ErrorLevel == 1
Disabled == 2
Levels == {InfoLevel, ErrorLevel, Disabled}

\* loggers = []*log.Logger{errorLog, infoLog}
loggers == <<"errorLog", "infoLog">>

Threads == {"t1", "t2"}

\* SetLevel calls made in one behaviour.
MaxSetLevel == 3

\* Mutant of ResetOutput: the output targets are not reset first.
ResetOutputSkipped(o, i) == o

\* One round of SetLevel's loop: loggers[i].SetOutput(os.Stdout).
ResetOutput(o, i) == [o EXCEPT ![loggers[i]] = "Stdout"]

\* if ErrorLevel < level { errorLog.SetOutput(io.Discard) }
DiscardError(o, level) ==
    IF ErrorLevel < level THEN [o EXCEPT !["errorLog"] = "Discard"] ELSE o

\* if InfoLevel < level { infoLog.SetOutput(io.Discard) }
DiscardInfo(o, level) ==
    IF InfoLevel < level THEN [o EXCEPT !["infoLog"] = "Discard"] ELSE o

\* Error = errorLog.Println, Info = infoLog.Println: the message goes to
\* the logger's output target of the moment; mu is not taken.
Println(o, logger) == o[logger]

\* -------------------------------------------------------------------- initial

NoCall ==
    [op |-> Nil, sess |-> Nil, in |-> <<>>, calls |-> <<>>, pre |-> New(Nil),
     ans |-> [val |-> Nil, err |-> Nil], events |-> <<>>, ret |-> <<>>,
     after |-> "none"]

NoEmit ==
    [logger |-> Nil, target |-> Nil, levels |-> <<>>, racing |-> FALSE,
     new |-> InfoLevel]

\* A database file without table User.
NoTable == [exists |-> FALSE, rows |-> 0]

\* What an earlier run of the demonstration program can have left in gee.db.
LeftOver == {NoTable, [exists |-> TRUE, rows |-> 0], [exists |-> TRUE, rows |-> 2]}

Init ==
    /\ engine = <<>>
    /\ dbState = [h \in {TheDB} |-> "unopened"]
    /\ sessions = <<>>
    /\ pending = <<>>
    /\ last = NoCall
    /\ table = NoTable
    /\ script = <<>>
    /\ out = [l \in {"errorLog", "infoLog"} |-> "Stdout"]
    /\ mu = Nil
    /\ pc = [t \in Threads |-> "idle"]
    /\ arg = [t \in Threads |-> InfoLevel]
    /\ idx = [t \in Threads |-> 1]
    /\ levels = <<>>
    /\ emit = NoEmit


\* ------------------------------------------------- actions: engine and sessions

Call(op, id, input, calls, pre, ans, events, ret, after) ==
    [op |-> op, sess |-> id, in |-> input, calls |-> calls, pre |-> pre,
     ans |-> ans, events |-> events, ret |-> ret, after |-> after]

TerminalOps == {"Exec", "QueryRow", "QueryRows"}

\* History: how the accumulation before the current one ended on session id,
\* as far as the calls since then were all made on id: by a terminal call
\* that succeeded ("ok") or failed ("failed"), by Clear ("Clear"), with
\* nothing accumulated ("empty"); "none" when another call came in between.
After(id) ==
    IF last.sess # id THEN "none"
    ELSE IF last.op \in TerminalOps
    THEN (IF last.calls = <<>> THEN "empty"
          ELSE IF last.ans.err # Nil THEN "failed" ELSE "ok")
    ELSE IF last.op = "Clear"
    THEN (IF last.calls = <<>> THEN "empty" ELSE "Clear")
    ELSE IF last.op = "Raw" THEN last.after
    ELSE "none"

NoAns == [val |-> Nil, err |-> Nil]

\* geeorm.NewEngine(driver, source)
NewEngineCall ==
    /\ engine = <<>>
    /\ \E openErr \in {Nil, OpenErr}, pingErr \in {Nil, PingErr} :
          LET r == NewEngine(openErr, pingErr) IN
          /\ engine' = IF r.ret[2] = Nil
                       THEN (TheEngine :> [db |-> TheDB]) ELSE engine
          /\ dbState' = [dbState EXCEPT ![TheDB] = r.st]
          /\ last' = Call("NewEngine", Nil, <<openErr, pingErr>>, <<>>,
                          New(Nil), NoAns,
                          r.events, r.ret, "none")
    /\ UNCHANGED <<sessions, pending>>
    /\ UNCHANGED logVars
    /\ UNCHANGED mainVars

\* engine.Close()
CloseCall ==
    /\ TheEngine \in DOMAIN engine
    /\ \E closeErr \in {Nil, CloseErr} :
          LET r == Close(closeErr) IN
          /\ dbState' = [dbState EXCEPT ![engine[TheEngine].db] = r.st]
          /\ last' = Call("Close", Nil, <<closeErr>>, <<>>, New(Nil), NoAns,
                          r.events, r.ret, "none")
    /\ UNCHANGED <<engine, sessions, pending>>
    /\ UNCHANGED logVars
    /\ UNCHANGED mainVars

\* engine.NewSession()
NewSessionCall(id) ==
    /\ TheEngine \in DOMAIN engine
    /\ id \notin DOMAIN sessions
    /\ sessions' = sessions @@ (id :> NewSession(engine[TheEngine]))
    /\ pending' = pending @@ (id :> <<>>)
    /\ last' = Call("NewSession", id, <<>>, <<>>, New(Nil), NoAns,
                    <<>>, <<id>>, "none")
    /\ UNCHANGED <<engine, dbState>>
    /\ UNCHANGED logVars
    /\ UNCHANGED mainVars

\* The number of Raw calls accumulated on the sessions ids.
RECURSIVE Accumulated(_, _)
Accumulated(p, ids) ==
    IF ids = {} THEN 0
    ELSE LET id == CHOOSE x \in ids : TRUE
         IN Len(p[id]) + Accumulated(p, ids \ {id})

\* s.Raw(sql, values...)
RawCall(id, sql, values) ==
    /\ id \in DOMAIN sessions
    /\ Accumulated(pending, DOMAIN pending) < MaxPending
    /\ sessions' = [sessions EXCEPT ![id] = Raw(@, sql, values)]
    /\ pending' = [pending EXCEPT
                      ![id] = Append(@, [sql |-> sql, values |-> values])]
    /\ last' = Call("Raw", id, <<sql, values>>, pending[id], sessions[id],
                    NoAns, <<>>, <<id>>, After(id))
    /\ UNCHANGED <<engine, dbState>>
    /\ UNCHANGED logVars
    /\ UNCHANGED mainVars

\* s.Clear()
ClearCall(id) ==
    /\ id \in DOMAIN sessions
    /\ sessions' = [sessions EXCEPT ![id] = Clear(@)]
    /\ pending' = [pending EXCEPT ![id] = <<>>]
    /\ last' = Call("Clear", id, <<>>, pending[id], sessions[id], NoAns,
                    <<>>, <<>>, After(id))
    /\ UNCHANGED <<engine, dbState>>
    /\ UNCHANGED logVars
    /\ UNCHANGED mainVars

\* A terminal call that went r on session id, the driver having answered ans.
Terminal(op, id, ans, r) ==
    /\ sessions' = [sessions EXCEPT ![id] = r.post]
    /\ pending' = [pending EXCEPT ![id] = <<>>]
    /\ last' = Call(op, id, <<>>, pending[id], sessions[id], ans,
                    r.events, r.ret, After(id))
    /\ UNCHANGED <<engine, dbState>>
    /\ UNCHANGED logVars

\* s.Exec()
ExecCall(id) ==
    /\ id \in DOMAIN sessions
    /\ \E ans \in ExecAnswers(dbState[DB(sessions[id])]) :
          Terminal("Exec", id, ans, Exec(sessions[id], ans))
    /\ UNCHANGED mainVars

\* s.QueryRow()
QueryRowCall(id) ==
    /\ id \in DOMAIN sessions
    /\ \E ans \in QueryRowAnswers(dbState[DB(sessions[id])]) :
          Terminal("QueryRow", id, ans, QueryRow(sessions[id], ans))
    /\ UNCHANGED mainVars

\* s.QueryRows()
QueryRowsCall(id) ==
    /\ id \in DOMAIN sessions
    /\ \E ans \in QueryAnswers(dbState[DB(sessions[id])]) :
          Terminal("QueryRows", id, ans, QueryRows(sessions[id], ans))
    /\ UNCHANGED mainVars

\* The calls of a program that makes its sessions among ids.
NextOn(ids) ==
    \/ NewEngineCall
    \/ CloseCall
    \/ \E id \in ids : NewSessionCall(id)
    \/ \E id \in ids, sql \in Fragments, values \in ParamLists :
          RawCall(id, sql, values)
    \/ \E id \in ids : ClearCall(id)
    \/ \E id \in ids : ExecCall(id)
    \/ \E id \in ids : QueryRowCall(id)
    \/ \E id \in ids : QueryRowsCall(id)

Next == NextOn(SessionIds)

Spec == Init /\ [][Next]_vars

\* A program that makes one session.
NextSolo == NextOn({"s1"})

SpecSolo == Init /\ [][NextSolo]_vars


\* ------------------------------- actions: the demonstration program (main.go)

\* The statements main hands to Raw, with their parameters.
StmtDrop == [sql |-> "DROP TABLE IF EXISTS User;", values |-> <<>>]
StmtCreate == [sql |-> "CREATE TABLE User(Name text);", values |-> <<>>]
StmtInsert == [sql |-> FragAB, values |-> <<"Tom", "Sam">>]

Statements == {StmtDrop, StmtCreate, StmtInsert}

\* What the driver answers to any other text or parameter count.
SyntaxErr == "SQL logic error"

\* The sqlite3 driver on the database file tb, as far as main exercises it
\* and its documented output shows: given text and args, the answer to
\* DB.Exec, the file afterwards and the count RowsAffected then reports.
\* Raw has put one space after the statement.
SqliteExec(tb, text, args) ==
    IF text = StmtDrop.sql \o " " /\ args = <<>>
    THEN [ans |-> [val |-> "Result", err |-> Nil], table |-> NoTable,
          affected |-> 0]
    ELSE IF text = StmtCreate.sql \o " " /\ args = <<>>
    THEN (IF tb.exists
          THEN [ans |-> [val |-> Nil, err |-> DriverErr], table |-> tb,
                affected |-> 0]
          ELSE [ans |-> [val |-> "Result", err |-> Nil],
                table |-> [exists |-> TRUE, rows |-> 0], affected |-> 0])
    ELSE IF text = StmtInsert.sql \o " " /\ Len(args) = 2 /\ tb.exists
    THEN [ans |-> [val |-> "Result", err |-> Nil],
          table |-> [tb EXCEPT !.rows = @ + 2], affected |-> 2]
    ELSE [ans |-> [val |-> Nil, err |-> SyntaxErr], table |-> tb,
          affected |-> 0]

\* The driver behind handle state st: a closed handle answers without it.
MainAnswer(st, tb, text, args) ==
    IF st = "open" THEN SqliteExec(tb, text, args)
    ELSE [ans |-> [val |-> Nil, err |-> ClosedErr], table |-> tb,
          affected |-> 0]

InitMain ==
    /\ engine = <<>>
    /\ dbState = [h \in {TheDB} |-> "unopened"]
    /\ sessions = <<>>
    /\ pending = <<>>
    /\ last = NoCall
    /\ table \in LeftOver
    /\ script = <<>>
    /\ out = [l \in {"errorLog", "infoLog"} |-> "Stdout"]
    /\ mu = Nil
    /\ pc = [t \in Threads |-> "idle"]
    /\ arg = [t \in Threads |-> InfoLevel]
    /\ idx = [t \in Threads |-> 1]
    /\ levels = <<>>
    /\ emit = NoEmit

\* s.Raw(stmt...) at the head of a chain s.Raw(...).Exec()
RawMain(id, stmt) ==
    /\ id \in DOMAIN pending
    /\ pending[id] = <<>>
    /\ Len(script) < MaxScript
    /\ RawCall(id, stmt.sql, stmt.values)

\* .Exec() at the end of the chain, and result.RowsAffected()
ExecMain(id) ==
    /\ id \in DOMAIN sessions
    /\ pending[id] # <<>>
    /\ LET s == sessions[id]
           d == MainAnswer(dbState[DB(s)], table, s.sql, s.sqlVars)
           r == Exec(s, d.ans)
       IN /\ Terminal("Exec", id, d.ans, r)
          /\ table' = d.table
          /\ script' = Append(script,
                 [calls |-> pending[id], text |-> s.sql, args |-> s.sqlVars,
                  err |-> r.ret[2], affected |-> d.affected])

NextMain ==
    \/ NewEngineCall
    \/ CloseCall
    \/ NewSessionCall("s1")
    \/ \E stmt \in Statements : RawMain("s1", stmt)
    \/ ExecMain("s1")

SpecMain == InitMain /\ [][NextMain]_vars


\* ----------------------------------------- actions: the logger, step by step

\* mu.Lock() at the head of SetLevel(level): blocks while mu is held.
SetLevelLock(t, level) ==
    /\ pc[t] = "idle"
    /\ mu = Nil
    /\ Len(levels) < MaxSetLevel
    /\ mu' = t
    /\ pc' = [pc EXCEPT ![t] = "reset"]
    /\ arg' = [arg EXCEPT ![t] = level]
    /\ idx' = [idx EXCEPT ![t] = 1]
    /\ UNCHANGED <<out, levels, emit>>
    /\ UNCHANGED sessVars

\* for _, logger := range loggers { logger.SetOutput(os.Stdout) }
SetLevelReset(t) ==
    /\ pc[t] = "reset"
    /\ out' = ResetOutput(out, idx[t])
    /\ IF idx[t] < Len(loggers)
       THEN idx' = [idx EXCEPT ![t] = @ + 1] /\ pc' = pc
       ELSE idx' = idx /\ pc' = [pc EXCEPT ![t] = "error"]
    /\ UNCHANGED <<mu, arg, levels, emit>>
    /\ UNCHANGED sessVars

SetLevelError(t) ==
    /\ pc[t] = "error"
    /\ out' = DiscardError(out, arg[t])
    /\ pc' = [pc EXCEPT ![t] = "info"]
    /\ UNCHANGED <<mu, arg, idx, levels, emit>>
    /\ UNCHANGED sessVars

SetLevelInfo(t) ==
    /\ pc[t] = "info"
    /\ out' = DiscardInfo(out, arg[t])
    /\ pc' = [pc EXCEPT ![t] = "unlock"]
    /\ UNCHANGED <<mu, arg, idx, levels, emit>>
    /\ UNCHANGED sessVars

\* The deferred mu.Unlock(): SetLevel(arg[t]) has returned.
SetLevelUnlock(t) ==
    /\ pc[t] = "unlock"
    /\ mu' = Nil
    /\ pc' = [pc EXCEPT ![t] = "idle"]
    /\ levels' = Append(levels, arg[t])
    /\ UNCHANGED <<out, arg, idx, emit>>
    /\ UNCHANGED sessVars

\* log.Info / log.Error (logger "infoLog" / "errorLog") from any goroutine.
Emit(logger) ==
    /\ emit' = [logger |-> logger, target |-> Println(out, logger),
                levels |-> levels, racing |-> mu # Nil,
                new |-> IF mu # Nil THEN arg[mu] ELSE InfoLevel]
    /\ UNCHANGED <<out, mu, pc, arg, idx, levels>>
    /\ UNCHANGED sessVars

Info == Emit("infoLog")

Error == Emit("errorLog")

NextLog ==
    \/ \E t \in Threads, level \in Levels : SetLevelLock(t, level)
    \/ \E t \in Threads : SetLevelReset(t)
    \/ \E t \in Threads : SetLevelError(t)
    \/ \E t \in Threads : SetLevelInfo(t)
    \/ \E t \in Threads : SetLevelUnlock(t)
    \/ Info
    \/ Error

SpecLog == Init /\ [][NextLog]_vars


\* ====================================================================== claims

\* f1 + " " + ... + fn + " " for the fragments of calls, in call order.
RECURSIVE JoinFragments(_)
JoinFragments(calls) ==
    IF calls = <<>> THEN ""
    ELSE (JoinFragments(SubSeq(calls, 1, Len(calls) - 1))
          \o calls[Len(calls)].sql) \o " "

\* P1 ++ ... ++ Pn for the parameters of calls, in call order.
RECURSIVE FlattenValues(_)
FlattenValues(calls) ==
    IF calls = <<>> THEN <<>>
    ELSE FlattenValues(SubSeq(calls, 1, Len(calls) - 1))
         \o calls[Len(calls)].values

\* The fragments of calls alone.
FragmentsOf(calls) == [k \in DOMAIN calls |-> calls[k].sql]

\* The calls into the driver among events.
DriverEvents(events) ==
    SelectSeq(events, LAMBDA e : e.kind \in {"Exec", "QueryRow", "Query"})

\* The log calls on channel ch among events.
LogEvents(events, ch) == SelectSeq(events, LAMBDA e : e.kind = ch)

\* A session just made on handle db that was given calls, one Raw each.
RECURSIVE Replay(_, _)
Replay(db, calls) ==
    IF calls = <<>> THEN New(db)
    ELSE Raw(Replay(db, SubSeq(calls, 1, Len(calls) - 1)),
             calls[Len(calls)].sql, calls[Len(calls)].values)

\* The terminal operation op on session struct s, the driver answering ans.
Run(op, s, ans) ==
    CASE op = "Exec" -> Exec(s, ans)
      [] op = "QueryRow" -> QueryRow(s, ans)
      [] op = "QueryRows" -> QueryRows(s, ans)

\* C1: when Exec, QueryRow or QueryRows has returned, the session's buffer is
\* the empty string and its parameter sequence is empty, whether the driver
\* succeeded or answered with an error.
C1_ClearedAfterTerminal ==
    last.op \in TerminalOps =>
        /\ sessions[last.sess].sql = ""
        /\ sessions[last.sess].sqlVars = <<>>

\* A terminal call the driver failed, made with two Raw calls accumulated.
C1_Witness ==
    /\ last.op \in TerminalOps
    /\ last.ans.err # Nil
    /\ Len(last.calls) = 2
    /\ last.pre.sql # ""
    /\ last.pre.sqlVars # <<>>

\* C2: the text and the parameter list a terminal call hands to the driver are
\* exactly the fragments and parameters of the Raw calls made on the session
\* since its creation, its last Clear or its last terminal call, in order.
C2_DriverGetsOnlyCurrentCalls ==
    last.op \in TerminalOps =>
        /\ DriverEvents(last.events) # <<>>
        /\ \A k \in DOMAIN DriverEvents(last.events) :
              /\ DriverEvents(last.events)[k].text = JoinFragments(last.calls)
              /\ DriverEvents(last.events)[k].vars = FlattenValues(last.calls)

\* A terminal call on a session that was used before: an earlier accumulation
\* ended in a terminal call or a Clear, and Raw calls were made since.
C2_Witness ==
    /\ last.op \in TerminalOps
    /\ last.after \in {"ok", "failed", "Clear"}
    /\ last.calls # <<>>
    /\ FlattenValues(last.calls) # <<>>

\* C3: a driver error in Exec or QueryRows is the error the call returns, with
\* one call into the driver and the session left as a new session is; and the
\* calls that follow a failed terminal call on the session (Raw calls, then a
\* terminal call) go as the same calls go on a new session.
C3_FailureDiscardsStatement ==
    /\ (last.op \in {"Exec", "QueryRows"} /\ last.ans.err # Nil) =>
          /\ last.ret = <<Nil, last.ans.err>>
          /\ Len(DriverEvents(last.events)) = 1
          /\ sessions[last.sess] = New(DB(last.pre))
    /\ (last.op \in TerminalOps /\ last.after = "failed") =>
          /\ last.events =
                Run(last.op, Replay(DB(last.pre), last.calls), last.ans).events
          /\ last.ret =
                Run(last.op, Replay(DB(last.pre), last.calls), last.ans).ret
          /\ sessions[last.sess] =
                Run(last.op, Replay(DB(last.pre), last.calls), last.ans).post

\* Raw calls and a terminal call made right after a failed terminal call.
C3_Witness ==
    /\ last.op \in TerminalOps
    /\ last.after = "failed"
    /\ last.calls # <<>>


\* C4: parameters never enter the SQL text. Two sessions given the same
\* fragments hold the same text whatever parameters came with them, and the
\* text a terminal call hands to the driver is the text any session given the
\* same fragments holds; the parameters are handed over as the bound
\* arguments, in order.
C4_ParametersNeverInText ==
    /\ \A i \in DOMAIN sessions, j \in DOMAIN sessions :
          FragmentsOf(pending[i]) = FragmentsOf(pending[j])
              => sessions[i].sql = sessions[j].sql
    /\ last.op \in TerminalOps =>
          \A k \in DOMAIN DriverEvents(last.events) :
              /\ DriverEvents(last.events)[k].vars = FlattenValues(last.calls)
              /\ \A j \in DOMAIN sessions :
                    FragmentsOf(pending[j]) = FragmentsOf(last.calls)
                        => DriverEvents(last.events)[k].text = sessions[j].sql

\* A terminal call whose parameters hold SQL metacharacters, while another
\* session holds the same fragments with other parameters.
C4_Witness ==
    /\ last.op \in TerminalOps
    /\ last.calls # <<>>
    /\ \E k \in DOMAIN FlattenValues(last.calls) :
          FlattenValues(last.calls)[k] = Meta
    /\ \E j \in DOMAIN sessions :
          /\ j # last.sess
          /\ FragmentsOf(pending[j]) = FragmentsOf(last.calls)
          /\ FlattenValues(pending[j]) # FlattenValues(last.calls)
          /\ FlattenValues(pending[j]) # <<>>

\* C5: Raw(A).Raw(B) and Raw(A + " " + B) are equivalent. From every session
\* state the two leave the same session struct, for all fragments and
\* parameters; and a terminal call made after two or more Raw calls handed
\* the driver, logged, returned and left behind what it does when the last
\* two fragments are given as one.
C5_TwoRawsAsOne ==
    /\ \A i \in DOMAIN sessions :
       \A a \in Fragments, b \in Fragments :
       \A p \in ParamLists, q \in ParamLists :
          Raw(Raw(sessions[i], a, p), b, q)
              = Raw(sessions[i], (a \o " ") \o b, p \o q)
    /\ (last.op \in TerminalOps /\ Len(last.calls) >= 2) =>
          LET n == Len(last.calls)
              merged == Raw(Replay(DB(last.pre), SubSeq(last.calls, 1, n - 2)),
                            (last.calls[n - 1].sql \o " ") \o last.calls[n].sql,
                            last.calls[n - 1].values \o last.calls[n].values)
          IN /\ last.events = Run(last.op, merged, last.ans).events
             /\ last.ret = Run(last.op, merged, last.ans).ret
             /\ sessions[last.sess] = Run(last.op, merged, last.ans).post

\* A terminal call after Raw(FragA) and Raw(FragB) handed the driver the text
\* a session holds after Raw(FragAB).
C5_Witness ==
    /\ last.op \in TerminalOps
    /\ FragmentsOf(last.calls) = <<FragA, FragB>>
    /\ FlattenValues(last.calls) # <<>>
    /\ DriverEvents(last.events)[1].text = Raw(New(TheDB), FragAB, <<>>).sql

\* C6: Raw appends the fragment and one space to the buffer and the values to
\* the parameters, keeps what was accumulated as a prefix, keeps the handle
\* and returns the session it was called on; so every session holds
\* f1 + " " + ... + fn + " " and P1 ++ ... ++ Pn of its Raw calls.
C6_RawAppends ==
    /\ last.op = "Raw" =>
          /\ sessions[last.sess].sql = (last.pre.sql \o last.in[1]) \o " "
          /\ sessions[last.sess].sqlVars = last.pre.sqlVars \o last.in[2]
          /\ sessions[last.sess].db = last.pre.db
          /\ last.ret = <<last.sess>>
    /\ \A i \in DOMAIN sessions :
          /\ sessions[i].sql = JoinFragments(pending[i])
          /\ sessions[i].sqlVars = FlattenValues(pending[i])

\* A second Raw call with parameters on a session that held parameters.
C6_Witness ==
    /\ last.op = "Raw"
    /\ Len(pending[last.sess]) = 2
    /\ last.pre.sqlVars # <<>>
    /\ last.in[2] # <<>>

\* C9: Exec and QueryRows log the accumulated statement and parameters on the
\* info channel, then call the driver with them, then, only when the driver
\* answered with an error, log that error on the error channel and return
\* it, then clear the session.
C9_LogDriverErrorClear ==
    last.op \in {"Exec", "QueryRows"} =>
        /\ Len(last.events) = IF last.ans.err # Nil THEN 4 ELSE 3
        /\ last.events[1] = Ev("info", JoinFragments(last.calls),
                               FlattenValues(last.calls))
        /\ last.events[2] = Ev(IF last.op = "Exec" THEN "Exec" ELSE "Query",
                               JoinFragments(last.calls),
                               FlattenValues(last.calls))
        /\ last.ans.err # Nil =>
              /\ last.events[3] = Ev("error", last.ans.err, <<>>)
              /\ last.ret[2] = last.ans.err
        /\ last.ans.err = Nil => last.ret[2] = Nil
        /\ last.events[Len(last.events)] = Ev("Clear", "", <<>>)
        /\ sessions[last.sess] = Clear(last.pre)

\* An Exec or QueryRows call the driver failed, with Raw calls accumulated.
C9_Witness ==
    /\ last.op \in {"Exec", "QueryRows"}
    /\ last.ans.err = DriverErr
    /\ last.calls # <<>>
    /\ LogEvents(last.events, "error") # <<>>

\* C10: QueryRow logs the accumulated statement and parameters on the info
\* channel, calls the driver, clears the session, and returns the cursor
\* and nothing else: no error value and no log call on the error channel,
\* whatever the cursor holds.
C10_QueryRowReportsNothing ==
    last.op = "QueryRow" =>
        /\ last.events = <<Ev("info", JoinFragments(last.calls),
                              FlattenValues(last.calls)),
                           Ev("QueryRow", JoinFragments(last.calls),
                              FlattenValues(last.calls)),
                           Ev("Clear", "", <<>>)>>
        /\ LogEvents(last.events, "error") = <<>>
        /\ last.ret = <<"Row">>
        /\ sessions[last.sess] = Clear(last.pre)

\* A QueryRow call that found no row, with Raw calls accumulated.
C10_Witness ==
    /\ last.op = "QueryRow"
    /\ last.ans.val = "norows"
    /\ last.calls # <<>>


\* The output targets a level stands for: Disabled silences both channels,
\* ErrorLevel the info channel alone, InfoLevel neither.
Prescribed(level) ==
    [errorLog |-> IF level = Disabled THEN "Discard" ELSE "Stdout",
     infoLog  |-> IF level = InfoLevel THEN "Stdout" ELSE "Discard"]

\* C7: once SetLevel calls have been made and none is running, the output
\* targets are those of the last level set, and a message emitted then
\* reaches the console or not by that level alone, whatever levels were set
\* before it.
C7_LastLevelDecides ==
    /\ (mu = Nil /\ levels # <<>>) => out = Prescribed(levels[Len(levels)])
    /\ (emit.logger # Nil /\ ~emit.racing /\ emit.levels # <<>>) =>
          emit.target = Prescribed(emit.levels[Len(emit.levels)])[emit.logger]

\* An info message reached the console after SetLevel(Disabled) and then
\* SetLevel(InfoLevel), no SetLevel call running.
C7_Witness ==
    /\ emit.logger = "infoLog"
    /\ ~emit.racing
    /\ Len(emit.levels) >= 2
    /\ emit.levels[Len(emit.levels) - 1] = Disabled
    /\ emit.levels[Len(emit.levels)] = InfoLevel
    /\ emit.target = "Stdout"

\* C8: a message emitted while a SetLevel call is running goes to the target
\* of the level in force before the call or to the target of the level being
\* set, never to another one.
C8_NoThirdTarget ==
    (emit.logger # Nil /\ emit.racing /\ emit.levels # <<>>) =>
        emit.target \in
            {Prescribed(emit.levels[Len(emit.levels)])[emit.logger],
             Prescribed(emit.new)[emit.logger]}


\* C11: Clear leaves the buffer and the parameters empty from any session
\* state, keeps the handle, calls neither the driver nor the logger, and a
\* second Clear changes nothing the first one left.
C11_ClearIdempotent ==
    last.op = "Clear" =>
        /\ sessions[last.sess].sql = ""
        /\ sessions[last.sess].sqlVars = <<>>
        /\ sessions[last.sess].db = last.pre.db
        /\ last.events = <<>>
        /\ Clear(sessions[last.sess]) = sessions[last.sess]
        /\ Clear(Clear(last.pre)) = sessions[last.sess]
        /\ (last.after = "Clear" /\ last.calls = <<>>) =>
              sessions[last.sess] = last.pre

\* A Clear right after a Clear that dropped an accumulated statement and
\* its parameters.
C11_Witness ==
    /\ last.op = "Clear"
    /\ last.after = "Clear"
    /\ last.calls = <<>>
    /\ sessions[last.sess].db = TheDB


\* C12: every Exec, QueryRow and QueryRows call goes into the driver exactly
\* once, whether the driver succeeds or fails, and Exec and QueryRows return
\* the driver's error as it is; Raw makes no call at all, so a statement whose
\* placeholders and parameters do not match fails only at the terminal call.
C12_SingleAttempt ==
    /\ last.op \in TerminalOps =>
          /\ Len(DriverEvents(last.events)) = 1
          /\ last.op \in {"Exec", "QueryRows"} => last.ret[2] = last.ans.err
    /\ last.op = "Raw" =>
          /\ last.events = <<>>
          /\ last.ret = <<last.sess>>

\* An Exec the driver failed on a statement with two placeholders and no
\* parameter, which Raw had accepted.
C12_Witness ==
    /\ last.op = "Exec"
    /\ last.calls = <<[sql |-> FragAB, values |-> <<>>]>>
    /\ last.ans.err = DriverErr
    /\ last.ret = <<Nil, DriverErr>>


\* The statements of main, in its order.
MainProgram == <<StmtDrop, StmtCreate, StmtCreate, StmtInsert>>

\* main's four calls were made in a row from the k-th Exec on, the handle
\* being open throughout.
RanMainAt(k) ==
    /\ k + 3 <= Len(script)
    /\ \A i \in 1..4 : /\ script[k + i - 1].calls = <<MainProgram[i]>>
                        /\ script[k + i - 1].err # ClosedErr

\* C13: in the end-to-end sequence on one session (drop the table if it
\* exists, create it, create it again, insert two rows with two placeholders
\* bound to two parameters) the second create fails and the final Exec
\* succeeds with an affected-row count of 2, the driver having received the
\* insert's own text and its own two parameters only.
C13_EndToEndTwoRows ==
    \A k \in 1..Len(script) :
        RanMainAt(k) =>
            /\ script[k].err = Nil
            /\ script[k + 1].err = Nil
            /\ script[k + 2].err = DriverErr
            /\ script[k + 3].err = Nil
            /\ script[k + 3].affected = 2
            /\ script[k + 3].text = StmtInsert.sql \o " "
            /\ script[k + 3].args = StmtInsert.values

C13_Witness ==
    /\ RanMainAt(1)
    /\ script[3].err = DriverErr
    /\ script[4].affected = 2
    /\ last.op = "Exec"
    /\ sessions["s1"] = New(TheDB)


\* The operations of a session.
SessionOps == {"Raw", "Clear"} \cup TerminalOps

\* C14: when NewEngine fails to connect (sql.Open fails, or Ping fails) the
\* error is logged once on the error channel and returned, the returned
\* engine is nil and "Connect database success" is not logged; an engine is
\* returned non-nil only together with a nil error.
C14_FailedConnectReturnsNoEngine ==
    last.op = "NewEngine" =>
        LET err == IF last.in[1] # Nil THEN last.in[1] ELSE last.in[2] IN
        /\ err # Nil =>
              /\ last.ret = <<Nil, err>>
              /\ LogEvents(last.events, "error") = <<Ev("error", err, <<>>)>>
              /\ LogEvents(last.events, "info") = <<>>
              /\ engine = <<>>
              /\ dbState[TheDB] # "open"
        /\ last.in[1] # Nil => LogEvents(last.events, "Ping") = <<>>
        /\ err = Nil =>
              /\ last.ret = <<TheEngine, Nil>>
              /\ LogEvents(last.events, "error") = <<>>
              /\ LogEvents(last.events, "info")
                    = <<Ev("info", "Connect database success", <<>>)>>
        /\ last.ret[1] # Nil => last.ret[2] = Nil

C14_Witness ==
    /\ last.op = "NewEngine"
    /\ last.in = <<Nil, PingErr>>
    /\ last.ret = <<Nil, PingErr>>
    /\ engine = <<>>

\* C15: the session borrows the database handle and never closes it: Raw,
\* Clear, Exec, QueryRow and QueryRows leave the session's handle reference
\* and the handle's state unchanged and make no Close call, on success or
\* on driver error; the handle becomes closed only in Engine.Close.
C15_SessionBorrowsHandle ==
    [][/\ \A id \in DOMAIN sessions : sessions'[id].db = sessions[id].db
       /\ last'.op \in SessionOps =>
             /\ dbState' = dbState
             /\ LogEvents(last'.events, "Close") = <<>>
             /\ sessions'[last'.sess].db = last'.pre.db
       /\ (dbState[TheDB] # "closed" /\ dbState'[TheDB] = "closed") =>
             last'.op = "Close"]_vars

C15_Witness ==
    /\ last.op = "Exec"
    /\ last.calls # <<>>
    /\ last.ans.err = DriverErr
    /\ sessions[last.sess].db = TheDB
    /\ dbState[TheDB] = "open"

\* C16: every NewSession call gives a new session with an empty buffer and
\* an empty parameter sequence on the engine's handle, and leaves the
\* existing sessions as they are; any Raw, Clear or terminal call on one
\* session leaves the buffer and the parameters of every other session
\* unchanged.
C16_SessionsIndependent ==
    [][/\ last'.op = "NewSession" =>
             /\ last'.sess \notin DOMAIN sessions
             /\ sessions'[last'.sess].sql = ""
             /\ sessions'[last'.sess].sqlVars = <<>>
             /\ sessions'[last'.sess].db = engine[TheEngine].db
             /\ \A o \in DOMAIN sessions : sessions'[o] = sessions[o]
       /\ last'.op \in SessionOps =>
             \A o \in DOMAIN sessions \ {last'.sess} :
                 /\ sessions'[o].sql = sessions[o].sql
                 /\ sessions'[o].sqlVars = sessions[o].sqlVars]_vars

C16_Witness ==
    /\ DOMAIN sessions = SessionIds
    /\ last.op \in TerminalOps
    /\ last.calls # <<>>
    /\ \E o \in SessionIds \ {last.sess} :
          /\ sessions[o].sql # ""
          /\ sessions[o].sqlVars # <<>>
          /\ sessions[o].db = sessions[last.sess].db

\* C17: Engine.Close logs "Close database success" only when closing the
\* handle returned no error; when the close fails, the failure is logged on
\* the error channel and the success message is not emitted.
C17_SuccessOnlyOnCleanClose ==
    last.op = "Close" =>
        /\ last.in[1] = Nil =>
              /\ LogEvents(last.events, "info")
                    = <<Ev("info", "Close database success", <<>>)>>
              /\ LogEvents(last.events, "error") = <<>>
        /\ last.in[1] # Nil =>
              /\ LogEvents(last.events, "error")
                    = <<Ev("error", "Failed to close database", <<>>)>>
              /\ LogEvents(last.events, "info") = <<>>

=============================================================================
